---------------------------- MODULE Spec2Model ----------------------------
(***************************************************************************)
(* Arkiv entity store with block-height expiration (package entity,        *)
(* package housekeepingtx) and the chain batch iterator (package           *)
(* dbevents).                                                              *)
(*                                                                         *)
(* The processor account's storage is a map from slot keys to 32-byte      *)
(* words.  Three families of slots are used: the metadata word of a key,   *)
(* the expiration node of a key and the bucket head of a height.  They are *)
(* kept here as three functions (meta, node, head); an unset slot reads as *)
(* the zero word.                                                          *)
(***************************************************************************)
EXTENDS Integers, Sequences, FiniteSets, TLC

(***************************************************************************)
(* Bounds of the model.                                                    *)
(***************************************************************************)
\* Entity keys are 1..NumKeys; the zero hash (common.Hash{}) is Null.
NumKeys == 2
\* Owner addresses are 0..NumOwners; 0 is the zero address.
NumOwners == 1
\* The largest value of the (scaled down) unsigned expiry counter: uint64
\* arithmetic wraps at MaxU64 + 1 here, as it wraps at 2^64 in the code.
MaxU64 == 2
\* The number of store operations in one run of the unrestricted store.
MaxOps == 4

\* min(100, ...) of the batch iterator: the most blocks one batch holds.
MaxBatchSize == 100
\* Checkpoints given at construction are 0..MaxCheckpoint.
MaxCheckpoint == 1
\* Notified heads are the low heads 0..MaxLowHead and the heads more than a
\* batch above every checkpoint, up to MaxBatchSize + MaxCheckpoint + MaxGap.
MaxLowHead == 2
MaxGap == 1
\* A failing read is met at one of the first MaxFaultOffset heights of the
\* gap or at its last height.
MaxFaultOffset == 2
\* A derived transaction holds at most MaxCreates Create operations and its
\* receipt at most MaxLogs logs.
MaxCreates == 2
MaxLogs == 2
MaxSweepOps == 3        \* calls made on the store before and with a sweep
MaxKeyLen == 3          \* characters of an annotation key
MaxSubmits == 2         \* storage transactions submitted
MaxOperations == 1000   \* the operations one storage transaction may hold

Null == 0
Keys == 1..NumKeys
Owners == 0..NumOwners
Heights == 0..MaxU64
U64Add(a, b) == (a + b) % (MaxU64 + 1)

\* No storage transaction was submitted.
NoVerdict ==
    [error |-> "none", count |-> 0, limit |-> 0, form |-> "none",
     lengths |-> <<0, 0, 0, 0, 0>>, keys |-> {}]

(***************************************************************************)
(* State.                                                                  *)
(***************************************************************************)
VARIABLES
    strictGet,      \* which of the two definitions of GetEntityMetaData is built
    meta,           \* metadata word of each key
    head,           \* bucket head of each height
    node,           \* expiration node of each key
    added,          \* history: per height, the keys added and not removed since
    live,           \* history: keys created and neither deleted nor swept
    last,           \* the last operation, its arguments and its results
    ops,            \* the number of operations made
    usedSlots,      \* the counter stored under UsedSlotsKey
    currentBlock    \* the height of the block being processed

storeVars == <<strictGet, meta, head, node, added, live, last, ops, usedSlots,
               currentBlock>>

VARIABLES
    pc,             \* where the iterator's loop is
    block,          \* the head slot shared with onNewHead (NoBlock: nil)
    chainConfig,    \* the chain configuration stored with it
    lastBlock,      \* the checkpoint: the last block delivered
    newBlockNumber, \* the head the loop read from the slot
    batch,          \* batch.Batch.Blocks
    fault,          \* history: what the last read of the database met
    lastBefore,     \* history: lastBlock when the loop last woke up
    expected,       \* history: the height the next yielded batch must start at
    mu,             \* the holder of cond.L ("free" or "iterator")
    notified,       \* history: the head of the latest onNewHead call
    stopped         \* history: yield returned false

streamVars == <<pc, block, chainConfig, lastBlock, newBlockNumber, batch,
                fault, lastBefore, expected, mu, notified, stopped>>

VARIABLES
    transactions,   \* rawBlock.Transactions() of the block to derive
    rawReceipts,    \* its receipts, one per transaction
    derived         \* the result of blockToEvents, once called

deriveVars == <<transactions, rawReceipts, derived>>

VARIABLES
    annotationKey,  \* the annotation key last matched against the grammar
    matched,        \* whether AnnotationIdentRegexCompiled matched it
    verdict         \* the outcome of the storage transaction last submitted

validateVars == <<annotationKey, matched, verdict>>

vars == <<storeVars, streamVars, deriveVars, validateVars>>

(***************************************************************************)
(* EntityMetaData and its 32-byte encoding.  The word is kept as its two   *)
(* used fields: bytes 0..19 (the owner) and bytes 24..31 (the big-endian   *)
(* expiry); bytes 20..23 are always zero.                                  *)
(***************************************************************************)
ZeroWord == [hi |-> 0, lo |-> 0]

EntityMetaData(owner, expiresAtBlock) ==
    [Owner |-> owner, ExpiresAtBlock |-> expiresAtBlock]

Marshal(emd) == [hi |-> emd.Owner, lo |-> emd.ExpiresAtBlock]

Unmarshal(word) == [Owner |-> word.hi, ExpiresAtBlock |-> word.lo]

ClearedNode == [prev |-> Null, next |-> Null]

\* The storage of the processor account, as a value.
Storage == [meta |-> meta, head |-> head, node |-> node]

(***************************************************************************)
(* package entity: metadata word primitives.                               *)
(***************************************************************************)
StoreEntityMetaData(st, key, emd) ==
    [st EXCEPT !.meta[key] = Marshal(emd)]

DeleteEntityMetadata(st, key) ==
    [st EXCEPT !.meta[key] = ZeroWord]

\* get_entity_metadata.go: the word is decoded whatever it holds.
GetEntityMetaData(st, key) ==
    [emd |-> Unmarshal(st.meta[key]), err |-> FALSE]

\* delete_entity_metadata.go, second definition: the zero word is an error.
GetEntityMetaDataChecked(st, key) ==
    IF st.meta[key] = ZeroWord
    THEN [emd |-> Unmarshal(ZeroWord), err |-> TRUE]
    ELSE [emd |-> Unmarshal(st.meta[key]), err |-> FALSE]

\* The source holds both definitions under one name; a build links one.
LinkedGetEntityMetaData(st, key) ==
    IF strictGet THEN GetEntityMetaDataChecked(st, key)
    ELSE GetEntityMetaData(st, key)

(***************************************************************************)
(* package entityexpiration: the per-height doubly-linked list.            *)
(***************************************************************************)
AddToEntitiesToExpireAtBlock(st, height, key) ==
    IF st.head[height] = Null
    THEN [st EXCEPT !.head[height] = key, !.node[key] = ClearedNode]
    ELSE LET oldHead == st.head[height]
             s1 == [st EXCEPT !.node[key] = [prev |-> Null, next |-> oldHead]]
             s2 == [s1 EXCEPT !.node[oldHead].prev = key]
         IN  [s2 EXCEPT !.head[height] = key]

RemoveFromEntitiesToExpire(st, height, key) ==
    LET n  == st.node[key]
        s1 == IF n.prev # Null
              THEN [st EXCEPT !.node[n.prev].next = n.next]
              ELSE [st EXCEPT !.head[height] = n.next]
        s2 == IF n.next # Null
              THEN [s1 EXCEPT !.node[n.next].prev = n.prev]
              ELSE s1
    IN  [s2 EXCEPT !.node[key] = ClearedNode]

\* The keys met by following next pointers from cur, at most fuel of them.
RECURSIVE Walk(_, _, _)
Walk(st, cur, fuel) ==
    IF cur = Null \/ fuel = 0 THEN <<>>
    ELSE <<cur>> \o Walk(st, st.node[cur].next, fuel - 1)

\* A chain of more than NumKeys nodes repeats a node: the iterator never ends.
IteratorDiverges(st, height) ==
    Len(Walk(st, st.head[height], NumKeys + 1)) > NumKeys

IteratorOfEntitiesToExpireAtBlock(st, height) ==
    Walk(st, st.head[height], NumKeys + 1)

(***************************************************************************)
(* package entity: Store, Delete, ExtendBTL.                               *)
(***************************************************************************)
Store(st, key, emd) ==
    AddToEntitiesToExpireAtBlock(StoreEntityMetaData(st, key, emd),
                                 emd.ExpiresAtBlock, key)

\* Delete with the metadata cleared before the index removal, which then
\* reads the height from the cleared word.
DeleteClearsFirst(st, toDelete) ==
    LET got == LinkedGetEntityMetaData(st, toDelete)
        cleared == DeleteEntityMetadata(st, toDelete)
        md == Unmarshal(cleared.meta[toDelete])
    IN  IF got.err
        THEN [st |-> st, owner |-> 0, height |-> 0, err |-> TRUE]
        ELSE [st    |-> RemoveFromEntitiesToExpire(cleared, md.ExpiresAtBlock,
                                                   toDelete),
              owner |-> got.emd.Owner,
              height |-> md.ExpiresAtBlock,
              err   |-> FALSE]

Delete(st, toDelete) ==
    LET got == LinkedGetEntityMetaData(st, toDelete)
    IN  IF got.err
        THEN [st |-> st, owner |-> 0, height |-> 0, err |-> TRUE]
        ELSE [st    |-> DeleteEntityMetadata(
                            RemoveFromEntitiesToExpire(
                                st, got.emd.ExpiresAtBlock, toDelete),
                            toDelete),
              owner |-> got.emd.Owner,
              height |-> got.emd.ExpiresAtBlock,
              err   |-> FALSE]

ExtendBTL(st, entityKey, numberOfBlocks) ==
    LET got == LinkedGetEntityMetaData(st, entityKey)
    IN  IF got.err
        THEN [st |-> st, old |-> 0, owner |-> 0, err |-> TRUE]
        ELSE LET oldExpiresAtBlock == got.emd.ExpiresAtBlock
                 newExpiresAtBlock == U64Add(oldExpiresAtBlock, numberOfBlocks)
                 s1 == RemoveFromEntitiesToExpire(st, oldExpiresAtBlock, entityKey)
                 s2 == AddToEntitiesToExpireAtBlock(s1, newExpiresAtBlock, entityKey)
                 s3 == StoreEntityMetaData(s2, entityKey,
                           EntityMetaData(got.emd.Owner, newExpiresAtBlock))
             IN  [st |-> s3, old |-> oldExpiresAtBlock,
                  owner |-> got.emd.Owner, err |-> FALSE]

(***************************************************************************)
(* package housekeepingtx: the per-block sweep.                            *)
(***************************************************************************)
ExpiredLog(toDelete, owner, blockNumber) ==
    [key |-> toDelete, owner |-> owner, blockNumber |-> blockNumber]

\* The loop over toDelete: the first failing deletion ends it with no logs.
\* Deletions already made stay in the state.  removed lists the index
\* removals made, for the history variables.
RECURSIVE DeleteEach(_, _, _, _, _)
DeleteEach(st, toDelete, blockNumber, logs, removed) ==
    IF toDelete = <<>>
    THEN [st |-> st, logs |-> logs, err |-> FALSE, removed |-> removed]
    ELSE LET d == Delete(st, Head(toDelete))
         IN  IF d.err
             THEN [st |-> st, logs |-> <<>>, err |-> TRUE, removed |-> removed]
             ELSE DeleteEach(d.st, Tail(toDelete), blockNumber,
                      Append(logs, ExpiredLog(Head(toDelete), d.owner, blockNumber)),
                      Append(removed, <<d.height, Head(toDelete)>>))

\* A sweep that deletes each key as the traversal meets it and follows the
\* next pointer of the node afterwards.
RECURSIVE DeleteWhileWalking(_, _, _, _, _)
DeleteWhileWalking(st, cur, blockNumber, logs, removed) ==
    IF cur = Null
    THEN [st |-> st, logs |-> logs, err |-> FALSE, removed |-> removed]
    ELSE LET d == Delete(st, cur)
         IN  IF d.err
             THEN [st |-> st, logs |-> <<>>, err |-> TRUE, removed |-> removed]
             ELSE DeleteWhileWalking(d.st, d.st.node[cur].next, blockNumber,
                      Append(logs, ExpiredLog(cur, d.owner, blockNumber)),
                      Append(removed, <<d.height, cur>>))

ExecuteTransactionInterleaved(st, blockNumber) ==
    DeleteWhileWalking(st, st.head[blockNumber], blockNumber, <<>>, <<>>)

ExecuteTransaction(st, blockNumber) ==
    DeleteEach(st, IteratorOfEntitiesToExpireAtBlock(st, blockNumber),
               blockNumber, <<>>, <<>>)

(***************************************************************************)
(* History of the index calls: the set each bucket should hold.            *)
(***************************************************************************)
AbsAdd(a, height, key) == [a EXCEPT ![height] = @ \cup {key}]
AbsRemove(a, height, key) == [a EXCEPT ![height] = @ \ {key}]

RECURSIVE AbsRemoveAll(_, _)
AbsRemoveAll(a, removed) ==
    IF removed = <<>> THEN a
    ELSE AbsRemoveAll(AbsRemove(a, Head(removed)[1], Head(removed)[2]),
                      Tail(removed))

SeqRange(s) == {s[i] : i \in 1..Len(s)}

(***************************************************************************)
(* package storageaccounting: the slot usage counter.  A slot is used      *)
(* when its word is not zero; the counter wraps the state access of one    *)
(* transaction and, when asked, adds the slots gained or freed to the      *)
(* number kept under UsedSlotsKey.                                         *)
(***************************************************************************)
GetNumberOfUsedSlots == usedSlots

SlotsUsed(st) ==
    Cardinality({k \in Keys : st.meta[k] # ZeroWord})
    + Cardinality({h \in Heights : st.head[h] # Null})
    + Cardinality({k \in Keys : st.node[k] # ClearedNode})

UpdateUsedSlotsForGolemBase(counter, before, after) ==
    counter + SlotsUsed(after) - SlotsUsed(before)

\* The deferred call made whatever the transaction returns.
AccountedAlways(after, err) ==
    usedSlots' = UpdateUsedSlotsForGolemBase(GetNumberOfUsedSlots,
                                             Storage, after)

\* The deferred call of a transaction: made only when it returns no error.
Accounted(after, err) ==
    usedSlots' = IF err THEN usedSlots
                 ELSE UpdateUsedSlotsForGolemBase(GetNumberOfUsedSlots,
                                                  Storage, after)

(***************************************************************************)
(* Operations of the entity store.                                         *)
(***************************************************************************)
LastOp(op, key, arg, owner, err, logs) ==
    [op |-> op, key |-> key, arg |-> arg, owner |-> owner, err |-> err,
     logs |-> logs]

StoreInit ==
    /\ strictGet \in BOOLEAN
    /\ meta = [k \in Keys |-> ZeroWord]
    /\ head = [h \in Heights |-> Null]
    /\ node = [k \in Keys |-> ClearedNode]
    /\ added = [h \in Heights |-> {}]
    /\ live = {}
    /\ last = LastOp("init", Null, 0, 0, FALSE, <<>>)
    /\ ops = 0
    /\ usedSlots = 0
    /\ currentBlock = 0
    \* the batch iterator is not running
    /\ pc = "done"
    /\ block = -1
    /\ chainConfig = "nil"
    /\ lastBlock = 0
    /\ newBlockNumber = 0
    /\ batch = <<>>
    /\ fault = [kind |-> "none", at |-> 0]
    /\ lastBefore = 0
    /\ expected = 1
    /\ mu = "free"
    /\ notified = -1
    /\ stopped = FALSE
    \* no block is being derived
    /\ transactions = <<>>
    /\ rawReceipts = <<>>
    /\ derived = [state |-> "none", Operations |-> <<>>]
    \* no annotation key is matched and no transaction submitted
    /\ annotationKey = <<>>
    /\ matched = FALSE
    /\ verdict = NoVerdict

Install(st) ==
    /\ meta' = st.meta
    /\ head' = st.head
    /\ node' = st.node

StoreEntity(key, owner, expiresAtBlock) ==
    /\ Install(Store(Storage, key, EntityMetaData(owner, expiresAtBlock)))
    /\ Accounted(Store(Storage, key, EntityMetaData(owner, expiresAtBlock)),
                 FALSE)
    /\ added' = AbsAdd(added, expiresAtBlock, key)
    /\ live' = live \cup {key}
    /\ last' = LastOp("store", key, expiresAtBlock, owner, FALSE, <<>>)
    /\ UNCHANGED strictGet

DeleteEntity(key) ==
    LET d == Delete(Storage, key)
    IN  /\ Install(d.st)
        /\ Accounted(d.st, d.err)
        /\ added' = IF d.err THEN added ELSE AbsRemove(added, d.height, key)
        /\ live' = IF d.err THEN live ELSE live \ {key}
        /\ last' = LastOp("delete", key, 0, d.owner, d.err, <<>>)
        /\ UNCHANGED strictGet

ExtendEntity(key, numberOfBlocks) ==
    LET e == ExtendBTL(Storage, key, numberOfBlocks)
    IN  /\ Install(e.st)
        /\ Accounted(e.st, e.err)
        /\ added' = IF e.err THEN added
                    ELSE AbsAdd(AbsRemove(added, e.old, key),
                                U64Add(e.old, numberOfBlocks), key)
        /\ live' = live
        /\ last' = LastOp("extend", key, numberOfBlocks, e.owner, e.err, <<>>)
        /\ UNCHANGED strictGet

\* A read of the metadata of a key: the state is left as it is.
GetEntity(key) ==
    LET got == LinkedGetEntityMetaData(Storage, key)
    IN  /\ last' = LastOp("get", key, got.emd.ExpiresAtBlock, got.emd.Owner,
                          got.err, <<>>)
        /\ UNCHANGED <<strictGet, meta, head, node, added, live, usedSlots>>

\* The sweep of one block.  On a cyclic chain slices.Collect never returns:
\* the operation has no result and no step.
Housekeeping(blockNumber) ==
    /\ ~IteratorDiverges(Storage, blockNumber)
    /\ LET x == ExecuteTransaction(Storage, blockNumber)
       IN  /\ Install(x.st)
           /\ Accounted(x.st, x.err)
           /\ added' = AbsRemoveAll(added, x.removed)
           /\ live' = live \ {x.removed[i][2] : i \in 1..Len(x.removed)}
           /\ last' = LastOp("sweep", Null, blockNumber, 0, x.err, x.logs)
    /\ UNCHANGED strictGet

Counted ==
    /\ ops < MaxOps
    /\ ops' = ops + 1
    /\ UNCHANGED <<currentBlock, streamVars, deriveVars, validateVars>>

\* Any call of the package's operations, with any arguments.
StoreNext ==
    \/ \E k \in Keys, o \in Owners, h \in Heights :
           Counted /\ StoreEntity(k, o, h)
    \/ \E k \in Keys : Counted /\ DeleteEntity(k)
    \/ \E k \in Keys, n \in Heights : Counted /\ ExtendEntity(k, n)
    \/ \E h \in Heights : Counted /\ Housekeeping(h)
    \/ \E k \in Keys : Counted /\ GetEntity(k)

(***************************************************************************)
(* package dbevents: NewChainBatchIterator.                                *)
(***************************************************************************)
NoBlock == -1
NoFault == [kind |-> "none", at |-> 0]
Min(a, b) == IF a <= b THEN a ELSE b
Last(s) == s[Len(s)]

Checkpoints == 0..MaxCheckpoint
NotifyHeads ==
    (0..MaxLowHead) \cup
    ((MaxBatchSize + 1)..(MaxBatchSize + MaxCheckpoint + MaxGap))

\* What a read of one height can meet: all data there ("none"), no
\* canonical hash, no block under the hash, no receipts, no block on the
\* second read, or blockToEvents failing.
FaultKinds == {"hash", "block", "receipts", "reread", "events"}

\* A batch size without the cap of 100.
BatchSizeUncapped(newHead, lastDelivered) == newHead - lastDelivered

BatchSize(newHead, lastDelivered) == Min(MaxBatchSize, newHead - lastDelivered)

\* A loop that starts at the checkpoint itself.
BlockNumberAtFromLast(lastDelivered, i) == lastDelivered + i

BlockNumberAt(lastDelivered, i) == lastDelivered + i + 1

\* blockToEvents: the events.Block of a block read at its own number.
BlockToEvents(blockNumber) == [Number |-> blockNumber]

\* The loop "for i := range batchSize".  The read of the height faultAt
\* meets faultKind; every other height has all its data.  The loop ends at
\* the first index whose read fails (StopIndex), with the blocks appended
\* before it.  ReadBlock returning nil is dereferenced before it is tested:
\* a panic.
StopIndex(batchSize, lastDelivered, faultAt, faultKind) ==
    LET failing == {i \in 0..(batchSize - 1) :
                       /\ faultKind # "none"
                       /\ BlockNumberAt(lastDelivered, i) = faultAt}
    IN  IF failing = {} THEN batchSize
        ELSE CHOOSE i \in failing : \A j \in failing : i <= j

ReadBlocks(batchSize, lastDelivered, faultAt, faultKind) ==
    LET stop == StopIndex(batchSize, lastDelivered, faultAt, faultKind)
    IN  [blocks |-> [j \in 1..stop |->
                        BlockToEvents(BlockNumberAt(lastDelivered, j - 1))],
         panic  |-> stop < batchSize /\ faultKind = "block"]

StreamInit ==
    /\ pc = "wait"
    /\ block = NoBlock
    /\ chainConfig = "nil"
    /\ lastBlock \in Checkpoints
    /\ newBlockNumber = 0
    /\ batch = <<>>
    /\ fault = NoFault
    /\ lastBefore = lastBlock
    /\ expected = lastBlock + 1
    /\ mu = "free"
    /\ notified = NoBlock
    /\ stopped = FALSE
    \* the store is empty and left alone
    /\ strictGet = FALSE
    /\ meta = [k \in Keys |-> ZeroWord]
    /\ head = [h \in Heights |-> Null]
    /\ node = [k \in Keys |-> ClearedNode]
    /\ added = [h \in Heights |-> {}]
    /\ live = {}
    /\ last = [op |-> "init", key |-> Null, arg |-> 0, owner |-> 0,
               err |-> FALSE, logs |-> <<>>]
    /\ ops = 0
    /\ usedSlots = 0
    /\ currentBlock = 0
    /\ transactions = <<>>
    /\ rawReceipts = <<>>
    /\ derived = [state |-> "none", Operations |-> <<>>]
    \* no annotation key is matched and no transaction submitted
    /\ annotationKey = <<>>
    /\ matched = FALSE
    /\ verdict = NoVerdict

\* A notification that leaves a head already pending in the slot.
onNewHeadKeepsPending(cc, bl) ==
    /\ pc # "crashed"
    /\ mu = "free"
    /\ block' = IF block = NoBlock THEN bl ELSE block
    /\ chainConfig' = cc
    /\ notified' = bl
    /\ UNCHANGED <<pc, lastBlock, newBlockNumber, batch, fault, lastBefore,
                   expected, mu, stopped>>

\* onNewHead: under the lock, overwrite the slot and signal.
onNewHead(cc, bl) ==
    /\ pc # "crashed"
    /\ mu = "free"
    /\ block' = bl
    /\ chainConfig' = cc
    /\ notified' = bl
    /\ UNCHANGED <<pc, lastBlock, newBlockNumber, batch, fault, lastBefore,
                   expected, mu, stopped>>

\* Line 47: cond.L.Lock().
Lock ==
    /\ pc = "wait"
    /\ mu = "free"
    /\ mu' = "iterator"
    /\ pc' = "locked"
    /\ UNCHANGED <<block, chainConfig, lastBlock, newBlockNumber, batch,
                   fault, lastBefore, expected, notified, stopped>>

\* Lines 49-50: the slot is empty; cond.Wait() releases the lock and
\* suspends the loop.
Park ==
    /\ pc = "locked"
    /\ block = NoBlock
    /\ mu' = "free"
    /\ pc' = "parked"
    /\ UNCHANGED <<block, chainConfig, lastBlock, newBlockNumber, batch,
                   fault, lastBefore, expected, notified, stopped>>

\* Line 50: cond.Wait() returns after a Signal, holding the lock again.
\* A suspended loop has seen the slot empty, so the slot is set only by an
\* onNewHead that signalled since.
Unpark ==
    /\ pc = "parked"
    /\ block # NoBlock
    /\ mu = "free"
    /\ mu' = "iterator"
    /\ pc' = "locked"
    /\ UNCHANGED <<block, chainConfig, lastBlock, newBlockNumber, batch,
                   fault, lastBefore, expected, notified, stopped>>

\* A loop that unlocks only when the read of the gap is over.
WakeKeepsLock ==
    /\ pc = "locked"
    /\ block # NoBlock
    /\ mu' = "iterator"
    /\ newBlockNumber' = block
    /\ block' = NoBlock
    /\ lastBefore' = lastBlock
    /\ fault' = NoFault
    /\ pc' = "reading"
    /\ UNCHANGED <<chainConfig, lastBlock, batch, expected, notified, stopped>>

\* Lines 52-56: under the lock, take the head number, clear the slot and
\* unlock.
Wake ==
    /\ pc = "locked"
    /\ block # NoBlock
    /\ mu' = "free"
    /\ newBlockNumber' = block
    /\ block' = NoBlock
    /\ lastBefore' = lastBlock
    /\ fault' = NoFault
    /\ pc' = "reading"
    /\ UNCHANGED <<chainConfig, lastBlock, batch, expected, notified, stopped>>

\* A loop that follows a head that is not newer: the checkpoint is moved
\* back to it.
SkipOldHeadRewinds ==
    /\ pc = "reading"
    /\ newBlockNumber <= lastBlock
    /\ pc' = "wait"
    /\ lastBlock' = newBlockNumber
    /\ newBlockNumber' = 0
    /\ UNCHANGED <<block, chainConfig, batch, fault, lastBefore,
                   expected, mu, notified, stopped>>

\* Lines 60-62 and 105-107: a head that is not newer gives an empty batch,
\* and the loop goes back to waiting.
SkipOldHead ==
    /\ pc = "reading"
    /\ newBlockNumber <= lastBlock
    /\ pc' = "wait"
    /\ newBlockNumber' = 0
    /\ UNCHANGED <<block, chainConfig, lastBlock, batch, fault, lastBefore,
                   expected, mu, notified, stopped>>

\* Lines 64-111: read the gap; then continue on an empty batch, else set
\* lastBlock to the last block read and yield.
ReadBatch(faultAt, faultKind) ==
    /\ pc = "reading"
    /\ newBlockNumber > lastBlock
    /\ LET batchSize == BatchSize(newBlockNumber, lastBlock)
           r == ReadBlocks(batchSize, lastBlock, faultAt, faultKind)
       IN  /\ fault' = [kind |-> faultKind, at |-> faultAt]
           /\ IF r.panic
              THEN /\ pc' = "crashed"
                   /\ batch' = r.blocks
                   /\ UNCHANGED <<lastBlock, newBlockNumber>>
              ELSE IF Len(r.blocks) = 0
              THEN /\ pc' = "wait"
                   /\ batch' = <<>>
                   /\ newBlockNumber' = 0
                   /\ UNCHANGED lastBlock
              ELSE /\ pc' = "yield"
                   /\ batch' = r.blocks
                   /\ lastBlock' = Last(r.blocks).Number
                   /\ UNCHANGED newBlockNumber
    /\ UNCHANGED <<block, chainConfig, lastBefore, expected, mu, notified,
                   stopped>>

\* The heights of the gap the loop is about to read.
Gap == (lastBlock + 1)..(lastBlock + BatchSize(newBlockNumber, lastBlock))

\* The heights at which the environment makes a read fail.
FaultHeights ==
    {k \in Gap : k <= lastBlock + MaxFaultOffset
                    \/ k = lastBlock + BatchSize(newBlockNumber, lastBlock)}

\* A loop that empties the slot once the consumer has accepted the batch.
ConsumerContinueClearsSlot ==
    /\ pc = "yield"
    /\ pc' = "wait"
    /\ expected' = Last(batch).Number + 1
    /\ batch' = <<>>
    /\ newBlockNumber' = 0
    /\ fault' = NoFault
    /\ lastBefore' = lastBlock
    /\ block' = NoBlock
    /\ UNCHANGED <<chainConfig, lastBlock, mu, notified, stopped>>

\* Line 113: yield returned true.
ConsumerContinue ==
    /\ pc = "yield"
    /\ pc' = "wait"
    /\ expected' = Last(batch).Number + 1
    /\ batch' = <<>>
    /\ newBlockNumber' = 0
    /\ fault' = NoFault
    /\ lastBefore' = lastBlock
    /\ UNCHANGED <<block, chainConfig, lastBlock, mu, notified, stopped>>

\* A loop that ignores the value yield returned.
ConsumerStopIgnored ==
    /\ pc = "yield"
    /\ pc' = "wait"
    /\ stopped' = TRUE
    /\ UNCHANGED <<block, chainConfig, lastBlock, newBlockNumber, batch,
                   fault, lastBefore, expected, mu, notified>>

\* Lines 113-115: yield returned false.
ConsumerStop ==
    /\ pc = "yield"
    /\ pc' = "done"
    /\ stopped' = TRUE
    /\ UNCHANGED <<block, chainConfig, lastBlock, newBlockNumber, batch,
                   fault, lastBefore, expected, mu, notified>>

StreamNext ==
    \/ \E bl \in NotifyHeads : onNewHead("cc", bl) /\ UNCHANGED <<storeVars, deriveVars, validateVars>>
    \/ Lock /\ UNCHANGED <<storeVars, deriveVars, validateVars>>
    \/ Park /\ UNCHANGED <<storeVars, deriveVars, validateVars>>
    \/ Unpark /\ UNCHANGED <<storeVars, deriveVars, validateVars>>
    \/ Wake /\ UNCHANGED <<storeVars, deriveVars, validateVars>>
    \/ SkipOldHead /\ UNCHANGED <<storeVars, deriveVars, validateVars>>
    \/ ReadBatch(0, "none") /\ UNCHANGED <<storeVars, deriveVars, validateVars>>
    \/ \E k \in FaultHeights, kind \in FaultKinds :
           ReadBatch(k, kind) /\ UNCHANGED <<storeVars, deriveVars, validateVars>>
    \/ ConsumerContinue /\ UNCHANGED <<storeVars, deriveVars, validateVars>>
    \/ ConsumerStop /\ UNCHANGED <<storeVars, deriveVars, validateVars>>

(***************************************************************************)
(* package dbevents: blockToEvents.                                        *)
(*                                                                         *)
(* A transaction is [To, Data, From]: Data is what UnpackArkivTransaction  *)
(* makes of its payload, an error or an ArkivTransaction of five lists;    *)
(* From is the sender its signature gives.  A receipt is [Status, Logs]; a *)
(* log is [Topics, Data], Data counted in 32-byte words.  A 32-byte hash   *)
(* (an entity key, a topic) is a pair of numbers, NoKey where an operation *)
(* names no key.                                                           *)
(***************************************************************************)
NotDerived == [state |-> "none", Operations |-> <<>>]

NoKey == <<>>

\* The event signatures of package logs, and one of another contract.
ArkivEntityCreated == <<-2, 1>>
ArkivEntityExpired == <<-2, 2>>
OtherTopic == <<-2, 3>>

\* The logs of the first receipt: one Expire operation per log with the
\* expired topic and 32 bytes of data, its OpIndex the index of the log.
RECURSIVE ExpireOperations(_, _)
ExpireOperations(logs, opIndex) ==
    IF opIndex >= Len(logs) THEN <<>>
    ELSE LET log == logs[opIndex + 1]
             rest == ExpireOperations(logs, opIndex + 1)
         IN  IF Len(log.Topics) = 0 THEN rest
             ELSE IF log.Topics[1] = ArkivEntityExpired /\ Len(log.Data) >= 1
             THEN <<[TxIndex |-> 0, OpIndex |-> opIndex, Kind |-> "Expire",
                     Key |-> log.Data[1], Owner |-> "none"]>> \o rest
             ELSE rest

\* createdEntities: the second topic of every log whose first topic is
\* ArkivEntityCreated.  A log with too few topics is indexed out of range.
RECURSIVE createdEntities(_)
createdEntities(logs) ==
    IF logs = <<>> THEN [panic |-> FALSE, entities |-> <<>>]
    ELSE LET log == Head(logs)
             rest == createdEntities(Tail(logs))
         IN  IF Len(log.Topics) = 0 THEN [panic |-> TRUE, entities |-> <<>>]
             ELSE IF log.Topics[1] # ArkivEntityCreated THEN rest
             ELSE IF Len(log.Topics) < 2 THEN [panic |-> TRUE, entities |-> <<>>]
             ELSE [panic |-> rest.panic,
                   entities |-> <<log.Topics[2]>> \o rest.entities]

\* A loop that stamps the two indexes the wrong way round.
CreateOperationsSwapped(i, from, creates, entities) ==
    [panic |-> Len(creates) > Len(entities),
     ops   |-> [k \in 1..Len(creates) |->
                  [TxIndex |-> k - 1, OpIndex |-> i, Kind |-> "Create",
                   Key |-> IF k <= Len(entities) THEN entities[k] ELSE NoKey,
                   Owner |-> from]]]

\* The loop over atx.Create (lines 71-88): the k-th Create takes the k-th
\* created key; createdEntities[0] of an empty slice is out of range.
CreateOperations(i, from, creates, entities) ==
    [panic |-> Len(creates) > Len(entities),
     ops   |-> [k \in 1..Len(creates) |->
                  [TxIndex |-> i, OpIndex |-> k - 1, Kind |-> "Create",
                   Key |-> IF k <= Len(entities) THEN entities[k] ELSE NoKey,
                   Owner |-> from]]]

\* The loops over Update, Extend, ChangeOwner and Delete (lines 90-139):
\* each counts its own opIndex from 0.
ListOperations(i, from, kind, list) ==
    [k \in 1..Len(list) |->
        [TxIndex |-> i, OpIndex |-> k - 1, Kind |-> kind,
         Key |-> list[k],
         Owner |-> IF kind = "Update" THEN from ELSE "none"]]

\* The body of the loop over the transactions (lines 43-139) for the
\* transaction of index i.
TransactionOperations(i, transaction, receipt) ==
    IF transaction.To # "ArkivProcessorAddress" \/ receipt.Status # "successful"
    THEN [state |-> "ok", ops |-> <<>>]
    ELSE IF transaction.Data.err \/ transaction.From = "invalid"
    THEN [state |-> "error", ops |-> <<>>]
    ELSE LET atx == transaction.Data.atx
             from == transaction.From
             created == createdEntities(receipt.Logs)
             creates == CreateOperations(i, from, atx.Create, created.entities)
         IN  IF created.panic \/ creates.panic
             THEN [state |-> "panic", ops |-> <<>>]
             ELSE [state |-> "ok",
                   ops |-> creates.ops
                           \o ListOperations(i, from, "Update", atx.Update)
                           \o ListOperations(i, from, "ExtendBTL", atx.Extend)
                           \o ListOperations(i, from, "ChangeOwner", atx.ChangeOwner)
                           \o ListOperations(i, from, "Delete", atx.Delete)]

\* The loop over the transactions from index i on: the first error or
\* panic ends it and no block is returned.
RECURSIVE DeriveFrom(_, _, _, _)
DeriveFrom(i, txs, receipts, operations) ==
    IF i >= Len(txs) THEN [state |-> "ok", Operations |-> operations]
    ELSE LET t == TransactionOperations(i, txs[i + 1], receipts[i + 1])
         IN  IF t.state # "ok" THEN [state |-> t.state, Operations |-> <<>>]
             ELSE DeriveFrom(i + 1, txs, receipts, operations \o t.ops)

blockToEvents(txs, receipts) ==
    IF Len(receipts) = 0 THEN [state |-> "ok", Operations |-> <<>>]
    ELSE DeriveFrom(0, txs, receipts, ExpireOperations(receipts[1].Logs, 0))

(***************************************************************************)
(* The blocks blockToEvents is called on.                                  *)
(***************************************************************************)
Senders == {"alice", "bob"}

\* The indexes of the transactions of a block.
TxIndexes == {0, 1}

\* Unpacked payloads: up to MaxCreates Create operations, alone or with one
\* operation of each other kind.
EmptyTransaction ==
    [Create |-> <<>>, Update |-> <<>>, Extend |-> <<>>, ChangeOwner |-> <<>>,
     Delete |-> <<>>]

Malformed == [err |-> TRUE, atx |-> EmptyTransaction]

ArkivTransactions ==
    LET none == EmptyTransaction
        each == [Update |-> <<<<-1, 1>>>>, Extend |-> <<<<-1, 2>>>>,
                 ChangeOwner |-> <<<<-1, 3>>>>, Delete |-> <<<<-1, 4>>>>]
    IN  {[Create |-> [k \in 1..c |-> "payload"], Update |-> r.Update,
          Extend |-> r.Extend, ChangeOwner |-> r.ChangeOwner,
          Delete |-> r.Delete] : c \in 0..MaxCreates, r \in {none, each}}

\* The log of a kind; the entity key it names is its place <<i, j>> in the
\* block, so that no two logs name the same key.
MakeLog(kind, key) ==
    CASE kind = "created" ->
             [Topics |-> <<ArkivEntityCreated, key>>, Data |-> <<>>]
      [] kind = "expired" ->
             [Topics |-> <<ArkivEntityExpired, key, <<-3, 1>>>>, Data |-> <<key>>]
      [] kind = "other" ->
             [Topics |-> <<OtherTopic>>, Data |-> <<>>]

\* Expiration logs are written to the first receipt only.
LogKinds(i) ==
    IF i = 0 THEN {"created", "expired", "other"} ELSE {"created", "other"}

LogLists(i) ==
    {[j \in 1..n |-> MakeLog(kinds[j], <<i, j>>)] :
        n \in 0..MaxLogs, kinds \in [1..MaxLogs -> LogKinds(i)]}

\* Transactions the deriver skips: no recipient, another recipient, or a
\* failed receipt.  Their payload is no storage transaction.
SkippedTransactions ==
    {[tx |-> [To |-> to, Data |-> Malformed, From |-> "alice"],
      status |-> "successful"] : to \in {"none", "other"}}
    \cup {[tx |-> [To |-> "ArkivProcessorAddress", Data |-> Malformed,
                   From |-> "alice"], status |-> "failed"]}

MalformedTransactions ==
    {[tx |-> [To |-> "ArkivProcessorAddress", Data |-> Malformed,
              From |-> "alice"], status |-> "successful"]}

StorageTransactions ==
    {[tx |-> [To |-> "ArkivProcessorAddress",
              Data |-> [err |-> FALSE, atx |-> atx], From |-> from],
      status |-> "successful"] : atx \in ArkivTransactions, from \in Senders}

\* The transactions and receipts a block can hold at index i.  The logs of
\* a transaction that is not derived are read only in the first receipt.
BlockEntries(i) ==
    {[tx |-> c.tx, receipt |-> [Status |-> c.status, Logs |-> logs]] :
        c \in StorageTransactions, logs \in LogLists(i)}
    \cup {[tx |-> c.tx, receipt |-> [Status |-> c.status, Logs |-> logs]] :
            c \in SkippedTransactions \cup MalformedTransactions,
            logs \in IF i = 0 THEN LogLists(0) ELSE {<<>>}}

DeriveInit ==
    /\ transactions = <<>>
    /\ rawReceipts = <<>>
    /\ derived = NotDerived
    \* the store is empty and the batch iterator is not running
    /\ strictGet = FALSE
    /\ meta = [k \in Keys |-> ZeroWord]
    /\ head = [h \in Heights |-> Null]
    /\ node = [k \in Keys |-> ClearedNode]
    /\ added = [h \in Heights |-> {}]
    /\ live = {}
    /\ last = [op |-> "init", key |-> Null, arg |-> 0, owner |-> 0,
               err |-> FALSE, logs |-> <<>>]
    /\ ops = 0
    /\ usedSlots = 0
    /\ currentBlock = 0
    /\ pc = "done"
    /\ block = NoBlock
    /\ chainConfig = "nil"
    /\ lastBlock = 0
    /\ newBlockNumber = 0
    /\ batch = <<>>
    /\ fault = NoFault
    /\ lastBefore = 0
    /\ expected = 1
    /\ mu = "free"
    /\ notified = NoBlock
    /\ stopped = FALSE
    /\ annotationKey = <<>>
    /\ matched = FALSE
    /\ verdict = NoVerdict

\* The chain appends a transaction and its receipt to the block.
AppendTransaction(entry) ==
    /\ Len(transactions) \in TxIndexes
    /\ derived = NotDerived
    /\ transactions' = Append(transactions, entry.tx)
    /\ rawReceipts' = Append(rawReceipts, entry.receipt)
    /\ UNCHANGED derived

\* The batch iterator calls blockToEvents on the block (line 93 of
\* chain_batch_iterator.go).
Derive ==
    /\ derived = NotDerived
    /\ derived' = blockToEvents(transactions, rawReceipts)
    /\ UNCHANGED <<transactions, rawReceipts>>

DeriveNext ==
    \/ /\ Len(transactions) \in TxIndexes
       /\ \E entry \in BlockEntries(Len(transactions)) : AppendTransaction(entry)
       /\ UNCHANGED <<storeVars, streamVars, validateVars>>
    \/ Derive /\ UNCHANGED <<storeVars, streamVars, validateVars>>

\* The chain advances: every notified head is above the one before.  All
\* data is present and the consumer accepts every batch.
LiveNotify(bl) ==
    /\ notified < bl
    /\ onNewHead("cc", bl)

IteratorStep ==
    \/ Lock /\ UNCHANGED <<storeVars, deriveVars, validateVars>>
    \/ Park /\ UNCHANGED <<storeVars, deriveVars, validateVars>>
    \/ Unpark /\ UNCHANGED <<storeVars, deriveVars, validateVars>>
    \/ Wake /\ UNCHANGED <<storeVars, deriveVars, validateVars>>
    \/ SkipOldHead /\ UNCHANGED <<storeVars, deriveVars, validateVars>>
    \/ ReadBatch(0, "none") /\ UNCHANGED <<storeVars, deriveVars, validateVars>>
    \/ ConsumerContinue /\ UNCHANGED <<storeVars, deriveVars, validateVars>>

LiveNext ==
    \/ \E bl \in NotifyHeads : LiveNotify(bl) /\ UNCHANGED <<storeVars, deriveVars, validateVars>>
    \/ IteratorStep

(***************************************************************************)
(* onNewHead and the loop, statement by statement.  onNewHead holds the    *)
(* lock from line 27 to line 31 (mu = "onNewHead") and writes the two      *)
(* variables in between; the loop reads chainConfig at line 80, inside the *)
(* read of a batch, after it unlocked at line 56.                          *)
(***************************************************************************)
\* Line 27: cond.L.Lock() of a call onNewHead(cc, bl).
onNewHeadLock(bl) ==
    /\ pc # "crashed"
    /\ mu = "free"
    /\ mu' = "onNewHead"
    /\ notified' = bl
    /\ UNCHANGED <<pc, block, chainConfig, lastBlock, newBlockNumber, batch,
                   fault, lastBefore, expected, stopped>>

\* Lines 28-31: the two writes, Signal and Unlock.
onNewHeadWrite(cc) ==
    /\ mu = "onNewHead"
    /\ block' = notified
    /\ chainConfig' = cc
    /\ mu' = "free"
    /\ UNCHANGED <<pc, lastBlock, newBlockNumber, batch, fault, lastBefore,
                   expected, notified, stopped>>

\* The read of a batch reaches line 80 unless the first height of the gap
\* has no canonical hash or no block: ReadReceipts is given chainConfig.
ReadsChainConfig ==
    /\ pc = "reading"
    /\ pc' # "reading"
    /\ newBlockNumber > lastBlock
    /\ ~(fault'.at = lastBlock + 1 /\ fault'.kind \in {"hash", "block"})

RaceNext ==
    \/ \E bl \in NotifyHeads : onNewHeadLock(bl) /\ UNCHANGED <<storeVars, deriveVars, validateVars>>
    \/ onNewHeadWrite("cc") /\ UNCHANGED <<storeVars, deriveVars, validateVars>>
    \/ Lock /\ UNCHANGED <<storeVars, deriveVars, validateVars>>
    \/ Park /\ UNCHANGED <<storeVars, deriveVars, validateVars>>
    \/ Unpark /\ UNCHANGED <<storeVars, deriveVars, validateVars>>
    \/ Wake /\ UNCHANGED <<storeVars, deriveVars, validateVars>>
    \/ SkipOldHead /\ UNCHANGED <<storeVars, deriveVars, validateVars>>
    \/ ReadBatch(0, "none") /\ UNCHANGED <<storeVars, deriveVars, validateVars>>
    \/ \E k \in FaultHeights, kind \in FaultKinds :
           ReadBatch(k, kind) /\ UNCHANGED <<storeVars, deriveVars, validateVars>>
    \/ ConsumerContinue /\ UNCHANGED <<storeVars, deriveVars, validateVars>>
    \/ ConsumerStop /\ UNCHANGED <<storeVars, deriveVars, validateVars>>

(***************************************************************************)
(* The housekeeping sweep and the calls that fill and empty the buckets.   *)
(* The store starts empty, or as three calls leave it: Store(1, o, 1),     *)
(* Store(1, o, 2), Delete(1), after which bucket 1 still lists key 1 and   *)
(* key 1 has no record.                                                    *)
(***************************************************************************)
EmptyStorage ==
    [meta |-> [k \in Keys |-> ZeroWord],
     head |-> [h \in Heights |-> Null],
     node |-> [k \in Keys |-> ClearedNode]]

StaleStorage ==
    Delete(Store(Store(EmptyStorage, 1, EntityMetaData(1, 1)),
                 1, EntityMetaData(1, 2)), 1).st

SweepInit ==
    /\ strictGet \in BOOLEAN
    /\ \E st \in {EmptyStorage, StaleStorage} :
          /\ meta = st.meta
          /\ head = st.head
          /\ node = st.node
          /\ added = [h \in Heights |->
                         IF st.head[h] = Null THEN {} ELSE {st.head[h]}]
          /\ usedSlots = SlotsUsed(st)
          /\ currentBlock = 0
          /\ last = IF st = EmptyStorage
                    THEN LastOp("init", Null, 0, 0, FALSE, <<>>)
                    ELSE LastOp("delete", 1, 0, 1, FALSE, <<>>)
    /\ live = {}
    /\ ops = 0
    /\ pc = "done"
    /\ block = -1
    /\ chainConfig = "nil"
    /\ lastBlock = 0
    /\ newBlockNumber = 0
    /\ batch = <<>>
    /\ fault = [kind |-> "none", at |-> 0]
    /\ lastBefore = 0
    /\ expected = 1
    /\ mu = "free"
    /\ notified = -1
    /\ stopped = FALSE
    /\ transactions = <<>>
    /\ rawReceipts = <<>>
    /\ derived = [state |-> "none", Operations |-> <<>>]
    /\ annotationKey = <<>>
    /\ matched = FALSE
    /\ verdict = NoVerdict

SweepCounted ==
    /\ ops < MaxSweepOps
    /\ ops' = ops + 1
    /\ UNCHANGED <<currentBlock, streamVars, deriveVars, validateVars>>

SweepNext ==
    \/ \E k \in Keys, o \in Owners, h \in Heights :
           SweepCounted /\ StoreEntity(k, o, h)
    \/ \E k \in Keys : SweepCounted /\ DeleteEntity(k)
    \/ \E h \in Heights : SweepCounted /\ Housekeeping(h)

(***************************************************************************)
(* The chain, block after block.  While the block of height currentBlock   *)
(* is processed, entities are stored and extended with an ExpiresAtBlock   *)
(* above it and entities that have a record are deleted; the block ends    *)
(* with the sweep of its height, whose logs are the logs of its first      *)
(* receipt, and the deriver is called on the block.                        *)
(***************************************************************************)
\* The log of housekeeping_transaction.go:54-63 as the deriver reads it:
\* the topics, and the key as the 32 bytes of data.
ReceiptLog(log) ==
    [Topics |-> <<ArkivEntityExpired, log.key, log.owner>>,
     Data |-> <<log.key>>]

\* The first transaction of a block carries the sweep; it is not addressed
\* to the storage processor and its payload is no storage transaction.
HousekeepingTransactions ==
    {[To |-> to, Data |-> Malformed, From |-> "system"] :
        to \in {"none", "other"}}

\* The block ends: the sweep of its height, and the block with the logs the
\* sweep returned (none when it failed) in its first receipt.
EndBlock ==
    /\ currentBlock < MaxU64
    /\ Housekeeping(currentBlock)
    /\ currentBlock' = currentBlock + 1
    /\ \E tx \in HousekeepingTransactions : transactions' = <<tx>>
    /\ rawReceipts' = <<[Status |-> "successful",
                         Logs |-> [i \in 1..Len(last'.logs) |->
                                     ReceiptLog(last'.logs[i])]]>>
    /\ derived' = NotDerived
    /\ UNCHANGED <<ops, streamVars, validateVars>>

ChainNext ==
    \/ \E k \in Keys, o \in Owners, h \in Heights :
           h > currentBlock /\ Counted /\ StoreEntity(k, o, h)
    \/ \E k \in Keys : meta[k] # ZeroWord /\ Counted /\ DeleteEntity(k)
    \/ \E k \in Keys, n \in Heights :
           /\ meta[k] # ZeroWord
           /\ U64Add(Unmarshal(meta[k]).ExpiresAtBlock, n) > currentBlock
           /\ Counted
           /\ ExtendEntity(k, n)
    \/ EndBlock
    \/ Derive /\ UNCHANGED <<storeVars, streamVars, validateVars>>

(***************************************************************************)
(* package entity: AnnotationIdentRegex, `[\p{L}_][\p{L}\p{N}_]*` between   *)
(* ^ and $.  A key is a sequence of characters; the characters are a       *)
(* sample of the Unicode general categories the two classes tell apart.    *)
(***************************************************************************)
Chars == {"a", "x", "Z", "lambda", "0", "7", "roman8", "half", "_", "$", "-"}

\* The general category: lambda is U+03BB, roman8 U+2167, half U+00BD.
Category(c) ==
    CASE c \in {"a", "x", "lambda"} -> "Ll"
      [] c = "Z" -> "Lu"
      [] c \in {"0", "7"} -> "Nd"
      [] c = "roman8" -> "Nl"
      [] c = "half" -> "No"
      [] c = "_" -> "Pc"
      [] c = "$" -> "Sc"
      [] c = "-" -> "Pd"

\* \p{L} and \p{N}.
IsLetter(c) == Category(c) \in {"Ll", "Lu", "Lt", "Lm", "Lo"}
IsNumber(c) == Category(c) \in {"Nd", "Nl", "No"}

\* The first class with the dollar sign let in.
FirstClassOrDollar(c) == IsLetter(c) \/ c = "_" \/ c = "$"

\* The two character classes of the expression.
FirstClass(c) == IsLetter(c) \/ c = "_"
RestClass(c) == IsLetter(c) \/ IsNumber(c) \/ c = "_"

\* The expression without ^ and $: some substring matches.
AnnotationIdentRegexUnanchored(key) ==
    \E i \in 1..Len(key) : FirstClass(key[i])

\* MatchString of the compiled expression: the whole key matches.
AnnotationIdentRegexCompiled(key) ==
    /\ Len(key) >= 1
    /\ FirstClass(key[1])
    /\ \A i \in 2..Len(key) : RestClass(key[i])

AnnotationKeys == UNION {[1..n -> Chars] : n \in 0..MaxKeyLen}

KeyInit ==
    /\ annotationKey = <<>>
    /\ matched = FALSE
    /\ verdict = NoVerdict
    \* the store is empty, the iterator is not running, no block is derived
    /\ strictGet = FALSE
    /\ meta = [k \in Keys |-> ZeroWord]
    /\ head = [h \in Heights |-> Null]
    /\ node = [k \in Keys |-> ClearedNode]
    /\ added = [h \in Heights |-> {}]
    /\ live = {}
    /\ last = [op |-> "init", key |-> Null, arg |-> 0, owner |-> 0,
               err |-> FALSE, logs |-> <<>>]
    /\ ops = 0
    /\ usedSlots = 0
    /\ currentBlock = 0
    /\ pc = "done"
    /\ block = -1
    /\ chainConfig = "nil"
    /\ lastBlock = 0
    /\ newBlockNumber = 0
    /\ batch = <<>>
    /\ fault = [kind |-> "none", at |-> 0]
    /\ lastBefore = 0
    /\ expected = 1
    /\ mu = "free"
    /\ notified = -1
    /\ stopped = FALSE
    /\ transactions = <<>>
    /\ rawReceipts = <<>>
    /\ derived = [state |-> "none", Operations |-> <<>>]

\* An annotation key is matched against the compiled expression.
MatchKey(key) ==
    /\ annotationKey' = key
    /\ matched' = AnnotationIdentRegexCompiled(key)
    /\ UNCHANGED <<verdict, storeVars, streamVars, deriveVars>>

\* One key is matched in a behaviour.
KeyNext ==
    /\ annotationKey = <<>>
    /\ \E key \in AnnotationKeys : MatchKey(key)

(***************************************************************************)
(* package storagetx: a storage transaction is decoded, validated and      *)
(* then executed, operation by operation, on the state of the processor.   *)
(* A rejected or failing transaction leaves the state as it was.           *)
(***************************************************************************)
\* The lists of a transaction are kept as runs: an operation and the
\* number of times it stands in a row.
CreateOp(key, btl, annotations) ==
    [Kind |-> "Create", Key |-> key, Arg |-> btl, Annotations |-> annotations]
UpdateOp(key, btl, annotations) ==
    [Kind |-> "Update", Key |-> key, Arg |-> btl, Annotations |-> annotations]
ExtendOp(key, numberOfBlocks) ==
    [Kind |-> "Extend", Key |-> key, Arg |-> numberOfBlocks, Annotations |-> <<>>]
ChangeOwnerOp(key, newOwner) ==
    [Kind |-> "ChangeOwner", Key |-> key, Arg |-> newOwner, Annotations |-> <<>>]
DeleteOp(key) ==
    [Kind |-> "Delete", Key |-> key, Arg |-> 0, Annotations |-> <<>>]

Repeat(op, n) == [op |-> op, times |-> n]

\* The number of operations of a list.
RECURSIVE ListLen(_)
ListLen(list) ==
    IF list = <<>> THEN 0 ELSE Head(list).times + ListLen(Tail(list))

Lengths(atx) ==
    <<ListLen(atx.Create), ListLen(atx.Update), ListLen(atx.Extend),
      ListLen(atx.ChangeOwner), ListLen(atx.Delete)>>

\* The operations of the first list only.
OperationCountOfCreates(atx) ==
    ListLen(atx.Create)

OperationCount(atx) ==
    ListLen(atx.Create) + ListLen(atx.Update) + ListLen(atx.Extend)
    + ListLen(atx.ChangeOwner) + ListLen(atx.Delete)

\* The annotation keys of the operations that carry annotations.
AnnotationKeysOf(atx) ==
    UNION ({SeqRange(atx.Create[i].op.Annotations) : i \in 1..Len(atx.Create)}
           \cup {SeqRange(atx.Update[i].op.Annotations) : i \in 1..Len(atx.Update)})

Validate(atx) ==
    IF OperationCount(atx) > MaxOperations
    THEN "OperationCountExceeded"
    ELSE IF \E key \in AnnotationKeysOf(atx) : ~AnnotationIdentRegexCompiled(key)
    THEN "InvalidAnnotationKey"
    ELSE "none"

\* The operations in the order of execution: the lists one after the
\* other.
OperationsInOrder(atx) ==
    atx.Create \o atx.Update \o atx.Extend \o atx.ChangeOwner \o atx.Delete

ApplyOperation(st, op, sender) ==
    CASE op.Kind = "Create" ->
            [st |-> Store(st, op.Key, EntityMetaData(sender, op.Arg)),
             err |-> FALSE]
      [] op.Kind = "Update" ->
            LET d == Delete(st, op.Key)
            IN  IF d.err THEN [st |-> st, err |-> TRUE]
                ELSE [st |-> Store(d.st, op.Key, EntityMetaData(d.owner, op.Arg)),
                      err |-> FALSE]
      [] op.Kind = "Extend" ->
            LET e == ExtendBTL(st, op.Key, op.Arg)
            IN  [st |-> e.st, err |-> e.err]
      [] op.Kind = "ChangeOwner" ->
            LET got == LinkedGetEntityMetaData(st, op.Key)
            IN  IF got.err THEN [st |-> st, err |-> TRUE]
                ELSE [st |-> StoreEntityMetaData(st, op.Key,
                                 EntityMetaData(op.Arg, got.emd.ExpiresAtBlock)),
                      err |-> FALSE]
      [] op.Kind = "Delete" ->
            LET d == Delete(st, op.Key)
            IN  [st |-> d.st, err |-> d.err]

\* The single element of a set.
The(set) == CHOOSE x \in set : TRUE

\* One operation applied n times in a row.  Once an application leaves
\* the state as it was, so do all the following ones.
RECURSIVE ApplyRun(_, _, _, _)
ApplyRun(st, op, sender, n) ==
    IF n = 0 THEN [st |-> st, err |-> FALSE]
    ELSE The({IF a.err \/ a.st = st THEN a
              ELSE ApplyRun(a.st, op, sender, n - 1) :
                 a \in {ApplyOperation(st, op, sender)}})

\* The runs in order; the first failing operation ends the execution.
RECURSIVE ApplyOperations(_, _, _)
ApplyOperations(st, runs, sender) ==
    IF runs = <<>> THEN [st |-> st, err |-> FALSE]
    ELSE The({IF a.err THEN a
              ELSE ApplyOperations(a.st, Tail(runs), sender) :
                 a \in {ApplyRun(st, Head(runs).op, sender, Head(runs).times)}})

ExecuteStorageTransaction(st, payload, sender) ==
    IF payload.form # "encoded"
    THEN [st |-> st, error |-> "DecodeError", count |-> 0, limit |-> 0]
    ELSE LET atx == payload.atx
             count == OperationCount(atx)
             invalid == Validate(atx)
         IN  IF invalid = "OperationCountExceeded"
             THEN [st |-> st, error |-> invalid, count |-> count,
                   limit |-> MaxOperations]
             ELSE IF invalid # "none"
             THEN [st |-> st, error |-> invalid, count |-> count, limit |-> 0]
             ELSE LET a == ApplyOperations(st, OperationsInOrder(atx), sender)
                  IN  IF a.err
                      THEN [st |-> st, error |-> "MissingEntity",
                            count |-> count, limit |-> 0]
                      ELSE [st |-> a.st, error |-> "none", count |-> count,
                            limit |-> 0]

\* The transactions submitted: one or two operations, with annotation
\* keys inside and outside the grammar, and about MaxOperations operations
\* spread over the lists.
GoodAnnotations == <<<<"a", "7">>>>

One(op) == <<Repeat(op, 1)>>

SmallTransactions ==
    LET none == EmptyTransaction
        good == GoodAnnotations
    IN  {[none EXCEPT !.Create = One(CreateOp(k, h, good))] :
            k \in {1, 2}, h \in {1, 2}}
        \cup {[none EXCEPT !.Create = One(CreateOp(2, 1, <<bad>>))] :
                bad \in {<<>>, <<"$", "a">>, <<"0", "x">>}}
        \cup {[none EXCEPT !.Create = One(CreateOp(1, 1, good))
                                   \o One(CreateOp(2, 1, <<<<"a", "-">>>>))],
              [none EXCEPT !.Create = One(CreateOp(2, 2, good)),
                           !.Update = One(UpdateOp(2, 1, <<<<"$">>>>))],
              [none EXCEPT !.Update = One(UpdateOp(1, 2, good))],
              [none EXCEPT !.Extend = One(ExtendOp(1, 1))],
              [none EXCEPT !.ChangeOwner = One(ChangeOwnerOp(1, 0))],
              [none EXCEPT !.Delete = One(DeleteOp(1))],
              [none EXCEPT !.Create = One(CreateOp(2, 1, good)),
                           !.Delete = One(DeleteOp(1))]}

LargeTransaction(e, o) ==
    [Create |-> One(CreateOp(1, 1, GoodAnnotations)),
     Update |-> One(UpdateOp(1, 1, GoodAnnotations)),
     Extend |-> <<Repeat(ExtendOp(1, 0), e)>>,
     ChangeOwner |-> <<Repeat(ChangeOwnerOp(1, 1), o)>>,
     Delete |-> One(DeleteOp(2))]

LargeTransactions ==
    {LargeTransaction(MaxOperations - 503, 500),
     LargeTransaction(MaxOperations - 502, 500),
     [EmptyTransaction EXCEPT
         !.Extend = <<Repeat(ExtendOp(1, 0), MaxOperations + 1)>>],
     [EmptyTransaction EXCEPT
         !.Delete = <<Repeat(DeleteOp(1), 2 * MaxOperations + 1)>>]}

\* The payloads: those that do not decode, and the encoded transactions.
Payloads ==
    {[form |-> f, atx |-> EmptyTransaction] :
        f \in {"empty", "truncated", "undecodable"}}
    \cup {[form |-> "encoded", atx |-> atx] :
            atx \in SmallTransactions \cup LargeTransactions}

\* A payload is submitted by a sender.  The history of the index calls
\* (added, live) is not kept for transactions.
SubmitStorageTransaction(payload, sender) ==
    LET x == ExecuteStorageTransaction(Storage, payload, sender)
    IN  /\ ops' = ops + 1
        /\ Install(x.st)
        /\ Accounted(x.st, x.error # "none")
        /\ verdict' = [error |-> x.error, count |-> x.count,
                       limit |-> x.limit, form |-> payload.form,
                       lengths |-> Lengths(payload.atx),
                       keys |-> AnnotationKeysOf(payload.atx)]
        /\ last' = LastOp("submit", Null, 0, sender, x.error # "none", <<>>)
        /\ UNCHANGED <<strictGet, added, live, currentBlock, annotationKey,
                       matched, streamVars, deriveVars>>

SubmitNext ==
    /\ ops < MaxSubmits
    /\ \E payload \in Payloads, sender \in Owners :
          SubmitStorageTransaction(payload, sender)

(***************************************************************************)
(* Specifications.                                                         *)
(***************************************************************************)
\* The entity store alone: the iterator is not running.
Spec == StoreInit /\ [][StoreNext]_vars

\* The batch iterator alone: the store is empty and left alone.
StreamSpec == StreamInit /\ [][StreamNext]_vars

DeriveSpec == DeriveInit /\ [][DeriveNext]_vars

\* Storage transactions submitted to the empty store.
SubmitSpec == StoreInit /\ [][SubmitNext]_vars

\* Annotation keys matched against the grammar.
KeySpec == KeyInit /\ [][KeyNext]_vars

\* Stores, deletions and sweeps, from the empty store or a stale bucket.
SweepSpec == SweepInit /\ [][SweepNext]_vars

\* The batch iterator with onNewHead in two steps: the lock, then the writes.
RaceSpec == StreamInit /\ [][RaceNext]_vars

\* The store over the blocks of the chain, swept in order, and the deriver.
ChainSpec == StoreInit /\ [][ChainNext]_vars

\* The iterator's goroutine and its consumer run whenever they can; nothing
\* obliges the producer to notify.
LiveSpec == StreamInit /\ [][LiveNext]_vars /\ WF_vars(IteratorStep)

(***************************************************************************)
(* Properties of the entity store.                                         *)
(***************************************************************************)
\* The sequence a sweep of height h yields in the current state.
Bucket(h) == IteratorOfEntitiesToExpireAtBlock(Storage, h)
Member(k, h) == k \in SeqRange(Bucket(h))
HasRecord(k) == meta[k] # ZeroWord
Expiry(k) == Unmarshal(meta[k]).ExpiresAtBlock
OwnerOf(k) == Unmarshal(meta[k]).Owner
\* The same, in the state a step leads to.
StorageNext == [meta |-> meta', head |-> head', node |-> node']
BucketNext(h) == IteratorOfEntitiesToExpireAtBlock(StorageNext, h)
MemberNext(k, h) == k \in SeqRange(BucketNext(h))
HasRecordNext(k) == meta'[k] # ZeroWord

\* C1: whatever Store, ExtendBTL and Delete calls were made, the sweep of
\* every height ends and yields exactly the keys added to that height and
\* not removed since, each once.
C1_SweepYieldsAddedMinusRemoved ==
    \A h \in Heights :
        /\ ~IteratorDiverges(Storage, h)
        /\ SeqRange(Bucket(h)) = added[h]
        /\ Len(Bucket(h)) = Cardinality(added[h])

\* C2: every key is in at most one height bucket, and that bucket is the
\* one of the ExpiresAtBlock its metadata records.
C2_OneBucketPerKey ==
    \A k \in Keys :
        /\ Cardinality({h \in Heights : Member(k, h)}) <= 1
        /\ \A h \in Heights : Member(k, h) => Expiry(k) = h

\* C3: a key has a non-zero metadata word exactly when it is live (created,
\* neither deleted nor swept) and a member of an expiration bucket.
C3_RecordIffLive ==
    \A k \in Keys :
        HasRecord(k) <=> (k \in live /\ \E h \in Heights : Member(k, h))

\* C4: a sweep of height b removes the metadata and the bucket membership
\* of a live entity expiring at b, and leaves the metadata and the bucket
\* membership of every live entity expiring at another height (b + 1 among
\* them) as they were.
C4_SweepTouchesOnlyItsHeight ==
    [][\A k \in Keys :
         (last'.op = "sweep" /\ k \in live /\ HasRecord(k) /\ Member(k, Expiry(k)))
         => IF Expiry(k) = last'.arg
            THEN /\ ~HasRecordNext(k)
                 /\ \A h \in Heights : ~MemberNext(k, h)
            ELSE /\ meta'[k] = meta[k]
                 /\ \A h \in Heights : MemberNext(k, h) <=> Member(k, h)
      ]_vars

\* C5: ExtendBTL(key, n) on a live entity of owner o expiring at h leaves
\* the metadata (o, h + n), with the key out of bucket h and in bucket h + n.
C5_ExtendMovesToHPlusN ==
    [][(last'.op = "extend" /\ last'.key \in live /\ HasRecord(last'.key))
         => LET k == last'.key
                h == Expiry(k)
                n == last'.arg
            IN  /\ ~last'.err
                /\ meta'[k] = Marshal(EntityMetaData(OwnerOf(k), h + n))
                /\ h + n \in Heights
                /\ MemberNext(k, h + n)
                /\ n # 0 => ~MemberNext(k, h)
      ]_vars

\* C6: the sweep of height b deletes exactly the keys bucket b holds when it
\* starts, returns one log per key in sweep order with the key and the owner
\* it had, and leaves bucket b empty.
C6_SweepDeletesBucket ==
    [][last'.op = "sweep"
         => LET b == last'.arg
                B == Bucket(b)
            IN  /\ ~last'.err
                /\ \A k \in Keys :
                      (HasRecord(k) /\ ~HasRecordNext(k)) <=> k \in SeqRange(B)
                /\ last'.logs = [i \in 1..Len(B) |->
                                   ExpiredLog(B[i], OwnerOf(B[i]), b)]
                /\ BucketNext(b) = <<>>
      ]_vars

(***************************************************************************)
(* Properties of the batch iterator.                                       *)
(***************************************************************************)
\* The read of the gap ends in this step.
ReadEnds == pc = "reading" /\ pc' # "reading" /\ newBlockNumber > lastBlock

\* C7: when the canonical hash, the block or the receipts of a height of
\* the gap are missing, the wake-up yields no batch and lastBlock keeps its
\* value.
C7_MissingDataYieldsNothing ==
    [][(ReadEnds /\ fault'.kind \in {"hash", "block", "receipts", "reread"})
         => (pc' # "yield" /\ lastBlock' = lastBlock)
      ]_vars

\* C8: a wake-up with a head newer than lastBlock whose reads all succeed
\* yields a batch of exactly the heights lastBlock + 1 up to
\* min(head, lastBlock + 100), never more than 100 blocks.
C8_BatchCoversGap ==
    [][(ReadEnds /\ fault'.kind = "none")
         => LET hi == IF newBlockNumber <= lastBlock + 100
                      THEN newBlockNumber ELSE lastBlock + 100
            IN  /\ pc' = "yield"
                /\ Len(batch') = hi - lastBlock
                /\ Len(batch') <= 100
                /\ \A i \in 1..Len(batch') : batch'[i].Number = lastBlock + i
      ]_vars

\* A batch of C + 1 .. C + 100 yielded for a head more than 100 above the
\* checkpoint C.
C8_Witness ==
    /\ pc = "yield"
    /\ fault.kind = "none"
    /\ newBlockNumber > lastBefore + 100
    /\ Len(batch) = 100
    /\ batch[1].Number = lastBefore + 1
    /\ batch[100].Number = lastBefore + 100

\* C9: the heights of a yielded batch are consecutive and ascending; the
\* first batch starts at the initial checkpoint + 1 and every later batch
\* at the last height of the batch before it + 1.
C9_BatchesAreGapless ==
    pc = "yield"
    => /\ Len(batch) >= 1
       /\ batch[1].Number = expected
       /\ \A i \in 1..(Len(batch) - 1) : batch[i + 1].Number = batch[i].Number + 1

\* A later batch of several blocks, yielded after a batch cut short by a
\* failing read, with a new head notified meanwhile.
C9_Witness ==
    /\ pc = "yield"
    /\ expected > MaxCheckpoint + 1
    /\ Len(batch) > 1
    /\ batch[1].Number = expected
    /\ block # NoBlock

\* C10: while the consumer handles a batch, and after it answered stop,
\* lastBlock still has the value it had before the batch.
C10_CheckpointWaitsForAccept ==
    pc \in {"yield", "done"} => lastBlock = lastBefore

\* C11: notifications made while the loop is busy are coalesced in one
\* slot: the slot is empty or holds the head notified last, never more, and
\* the loop reads from it the head notified last.
C11_SlotHoldsLatestHead ==
    [][/\ block' \in {NoBlock, notified'}
       /\ (pc = "locked" /\ pc' = "reading") => newBlockNumber' = notified
      ]_vars

\* The loop took a head notified over an older pending one while it held a
\* batch of the head before.
C11_Witness ==
    /\ pc = "reading"
    /\ newBlockNumber = notified
    /\ expected > MaxCheckpoint + 1
    /\ newBlockNumber > lastBlock + 1
    /\ block = NoBlock

\* C12: when the notifications end with head H, all data is present and
\* the consumer accepts every batch, the iterator ends up having delivered
\* every height up to H, with no further notification.
C12_DeliversUpToLastHead ==
    <>[](notified # NoBlock => lastBlock >= notified)

\* C13: while the loop is suspended in cond.Wait with no head pending, the
\* head notified last is not above lastBlock.
C13_SuspendedOnlyWithoutNewerHead ==
    (pc = "parked" /\ block = NoBlock)
    => (notified = NoBlock \/ notified <= lastBlock)

\* C14: the lock is held by the loop only between Lock and the read of
\* the slot; while the loop reads blocks, is suspended, or the consumer
\* handles a batch, the lock is free and onNewHead can run.
C14_NotifyNeverWaits ==
    /\ mu = "iterator" => pc = "locked"
    /\ pc \in {"wait", "parked", "reading", "yield", "done"}
          => \A bl \in NotifyHeads : ENABLED onNewHead("cc", bl)

\* A notification completed while the consumer handles a batch.
C14_Witness ==
    /\ pc = "yield"
    /\ mu = "free"
    /\ block # NoBlock
    /\ block = notified
    /\ notified > newBlockNumber

\* C15: once yield returned false the iterator has ended: it yields no
\* batch, reads no block and does not hold the lock.
C15_StopTerminates ==
    [][stopped => /\ pc = "done"
                  /\ mu = "free"
                  /\ pc' = "done"
                  /\ mu' = "free"
                  /\ batch' = batch
                  /\ lastBlock' = lastBlock
                  /\ newBlockNumber' = newBlockNumber
      ]_vars

\* The iterator has ended and a newer head was notified since.
C15_Witness ==
    /\ stopped
    /\ pc = "done"
    /\ block # NoBlock
    /\ block > lastBlock

\* C16: a read that meets a missing block, missing receipts or a failing
\* derivation does not end the iterator: it waits again, or yields a batch
\* that starts at lastBlock + 1.
C16_FaultNeverTerminates ==
    [][(ReadEnds /\ fault'.kind \in {"block", "receipts", "reread", "events"})
         => /\ pc' \in {"wait", "yield"}
            /\ pc' = "yield" => batch'[1].Number = lastBlock + 1
      ]_vars

(***************************************************************************)
(* Properties of the event deriver.                                        *)
(***************************************************************************)
\* The transaction of index i is one the deriver decodes.
IsStorageTransaction(i) ==
    /\ transactions[i + 1].To = "ArkivProcessorAddress"
    /\ rawReceipts[i + 1].Status = "successful"

IsExpiredLog(log) ==
    Len(log.Topics) > 0 /\ log.Topics[1] = ArkivEntityExpired

IsCreatedLog(log) ==
    Len(log.Topics) > 0 /\ log.Topics[1] = ArkivEntityCreated

IsExpire(op) == op.Kind = "Expire"

\* The operations of a kind derived from the transaction of index i.
OperationsOf(i, kind) ==
    SelectSeq(derived.Operations,
              LAMBDA op : op.Kind = kind /\ op.TxIndex = i)

\* C17: in a derived block no two operations carry the same pair
\* (TxIndex, OpIndex), and the operations derived from one transaction
\* carry the OpIndex values 0, 1, 2, ... each once.
C17_OpIndexOrdersOperations ==
    derived.state = "ok"
    => LET O == derived.Operations
       IN  /\ \A a, b \in 1..Len(O) :
                 a # b => <<O[a].TxIndex, O[a].OpIndex>>
                            # <<O[b].TxIndex, O[b].OpIndex>>
           /\ \A i \in 0..(Len(transactions) - 1) :
                 LET mine == {a \in 1..Len(O) :
                                 O[a].Kind # "Expire" /\ O[a].TxIndex = i}
                 IN  /\ {O[a].OpIndex : a \in mine} = 0..(Cardinality(mine) - 1)
                     /\ \A a, b \in mine : a # b => O[a].OpIndex # O[b].OpIndex

\* C18: the Expire operations of a derived block are one per expiration
\* log of the first receipt, in log order, with TxIndex 0 and OpIndex
\* 0, 1, 2, ... whatever other logs stand between them.
C18_ExpireIndexesAreSequential ==
    (derived.state = "ok" /\ Len(rawReceipts) > 0)
    => LET expires == SelectSeq(derived.Operations, IsExpire)
           logs == SelectSeq(rawReceipts[1].Logs, IsExpiredLog)
       IN  /\ Len(expires) = Len(logs)
           /\ \A m \in 1..Len(expires) :
                 /\ expires[m].TxIndex = 0
                 /\ expires[m].OpIndex = m - 1
                 /\ expires[m].Key = logs[m].Data[1]

\* C19: every call of blockToEvents returns, and in its block the k-th
\* Create of a storage transaction carries the key of the k-th
\* EntityCreated log of that transaction's receipt.
C19_CreatesPairWithLogs ==
    derived.state # "none"
    => /\ derived.state # "panic"
       /\ derived.state = "ok"
             => \A i \in 0..(Len(transactions) - 1) :
                   LET creates == OperationsOf(i, "Create")
                       logs == SelectSeq(rawReceipts[i + 1].Logs, IsCreatedLog)
                   IN  \A k \in 1..Len(creates) :
                          /\ k <= Len(logs)
                          /\ creates[k].Key = logs[k].Topics[2]

\* C20: in a derived block the Create operations of index i are those of
\* the payload of transaction i, as many, with OpIndex 0, 1, ... and the
\* sender of that transaction as Owner; a transaction that is not decoded
\* has none.
C20_CreateCarriesIndexAndSender ==
    derived.state = "ok"
    => /\ \A i \in 0..(Len(transactions) - 1) :
             LET creates == OperationsOf(i, "Create")
             IN  /\ Len(creates) = IF IsStorageTransaction(i)
                                   THEN Len(transactions[i + 1].Data.atx.Create)
                                   ELSE 0
                 /\ \A k \in 1..Len(creates) :
                       /\ creates[k].OpIndex = k - 1
                       /\ creates[k].Owner = transactions[i + 1].From
       /\ \A a \in 1..Len(derived.Operations) :
             derived.Operations[a].Kind = "Create"
             => derived.Operations[a].TxIndex \in 0..(Len(transactions) - 1)

\* A block of two transactions of different senders, the second with one
\* Create and one creation log: one Create of index 1 owned by its sender.
C20_Witness ==
    /\ derived.state = "ok"
    /\ Len(transactions) = 2
    /\ transactions[1].From = "alice"
    /\ transactions[2].From = "bob"
    /\ IsStorageTransaction(1)
    /\ Len(transactions[2].Data.atx.Create) = 1
    /\ Len(OperationsOf(1, "Create")) = 1
    /\ OperationsOf(1, "Create")[1].OpIndex = 0
    /\ OperationsOf(1, "Create")[1].Owner = "bob"
    /\ Len(OperationsOf(0, "Create")) = 2

\* C21: in a derived block every Create, Update, ExtendBTL, ChangeOwner and
\* Delete operation belongs to a transaction that is not the first one of
\* the block, is addressed to the storage processor and has a successful
\* receipt; the payload of any other transaction is not decoded, so a
\* decoding error is the error of such a transaction.
C21_OnlyLaterStorageTransactionsDerived ==
    /\ derived.state = "ok"
       => \A a \in 1..Len(derived.Operations) :
             LET op == derived.Operations[a]
             IN  ~IsExpire(op)
                 => /\ op.TxIndex \in 1..(Len(transactions) - 1)
                    /\ IsStorageTransaction(op.TxIndex)
    /\ derived.state = "error"
       => \E i \in 1..(Len(transactions) - 1) :
             /\ IsStorageTransaction(i)
             /\ \/ transactions[i + 1].Data.err
                \/ transactions[i + 1].From = "invalid"

(***************************************************************************)
(* Properties of the reads and of the failing operations of the store.     *)
(***************************************************************************)
\* C22: a read of a key whose metadata word is all-zero fails (NotFound),
\* and a read of any other key succeeds with the owner and the expiry the
\* word holds; no zero-valued record is returned as a success.
C22_GetFailsIffNoRecord ==
    last.op = "get"
    => /\ last.err <=> ~HasRecord(last.key)
       /\ ~last.err => /\ last.owner = OwnerOf(last.key)
                       /\ last.arg = Expiry(last.key)

\* C23: Delete and ExtendBTL of a key that has no metadata record fail and
\* write nothing: every metadata word, bucket head and expiration node is
\* as it was before the call.
C23_MissingEntityFailsUntouched ==
    [][(/\ last'.op \in {"delete", "extend"}
        /\ ops' = ops + 1
        /\ ~HasRecord(last'.key))
       => /\ last'.err
          /\ StorageNext = Storage]_vars

(***************************************************************************)
(* Properties of the housekeeping sweep.                                   *)
(***************************************************************************)
\* C28: a sweep in which a deletion fails returns an error and no logs and
\* leaves the used-slot counter as it was; a sweep in which every deletion
\* succeeds changes the counter by the difference between the slots used
\* after all its deletions and the slots used before the first.
C28_CounterUpdatedOnSuccessOnly ==
    [][(last'.op = "sweep" /\ ops' = ops + 1)
       => IF last'.err
          THEN /\ last'.logs = <<>>
               /\ usedSlots' = usedSlots
          ELSE usedSlots' = usedSlots + SlotsUsed(StorageNext)
                                      - SlotsUsed(Storage)]_vars

\* A sweep has deleted two entities and the counter is back to zero.
C28_Witness ==
    /\ last.op = "sweep"
    /\ ~last.err
    /\ Len(last.logs) = 2
    /\ usedSlots = 0

\* C29: the deletion of a key that has a record succeeds, returns the owner
\* the record held before the call, removes the key from the bucket of the
\* height the record held, with the record still in place after that
\* removal, and clears the record last.
C29_DeleteReadsRemovesClears ==
    [][(/\ last'.op = "delete"
        /\ ops' = ops + 1
        /\ HasRecord(last'.key))
       => LET k == last'.key
              removed == RemoveFromEntitiesToExpire(Storage, Expiry(k), k)
          IN  /\ ~last'.err
              /\ last'.owner = OwnerOf(k)
              /\ removed.meta[k] = meta[k]
              /\ StorageNext = DeleteEntityMetadata(removed, k)]_vars

\* A stored entity was deleted: its owner was returned, it has no record
\* and no bucket lists it.
C29_Witness ==
    /\ last.op = "delete"
    /\ ops > 0
    /\ ~last.err
    /\ last.owner # 0
    /\ ~HasRecord(last.key)
    /\ \A h \in Heights : ~Member(last.key, h)

\* C30: the keys a sweep deletes are those the traversal of the bucket
\* yields in the state before the first deletion, all of them and in that
\* order: each has a log and none keeps a record.  A sweep fails only on a
\* key of that list that had no record.
C30_SweepCollectsBeforeDeleting ==
    [][(last'.op = "sweep" /\ ops' = ops + 1)
       => LET toDelete == Bucket(last'.arg)
          IN  IF last'.err
              THEN \E k \in SeqRange(toDelete) : ~HasRecord(k)
              ELSE /\ Len(last'.logs) = Len(toDelete)
                   /\ \A i \in 1..Len(toDelete) :
                         /\ last'.logs[i].key = toDelete[i]
                         /\ ~HasRecordNext(toDelete[i])]_vars

\* A sweep of a bucket of two keys has deleted both.
C30_Witness ==
    /\ last.op = "sweep"
    /\ ~last.err
    /\ Len(last.logs) = 2
    /\ last.logs[1].key # last.logs[2].key
    /\ \A k \in Keys : ~HasRecord(k)

(***************************************************************************)
(* Properties of the annotation key grammar.                               *)
(***************************************************************************)
IsDigit(c) == Category(c) = "Nd"

\* C26 as stated: a key is accepted exactly when its first character is a
\* letter or underscore and every following one a letter, a digit or an
\* underscore; the empty key and the keys starting with $ or 0x are
\* rejected.
C26_AcceptedIffLettersDigitsUnderscores ==
    /\ matched <=> /\ Len(annotationKey) >= 1
                   /\ IsLetter(annotationKey[1]) \/ annotationKey[1] = "_"
                   /\ \A i \in 2..Len(annotationKey) :
                         \/ IsLetter(annotationKey[i])
                         \/ IsDigit(annotationKey[i])
                         \/ annotationKey[i] = "_"
    /\ annotationKey = <<>> => ~matched
    /\ (Len(annotationKey) >= 1 /\ annotationKey[1] = "$") => ~matched
    /\ (Len(annotationKey) >= 2 /\ annotationKey[1] = "0"
        /\ annotationKey[2] = "x") => ~matched

\* C26, amended: the following characters may be any Unicode number, of
\* the categories Nd (decimal digit), Nl (letter number) and No (other
\* number), not decimal digits only.
C26_AcceptedIffLettersNumbersUnderscores ==
    /\ matched <=> /\ Len(annotationKey) >= 1
                   /\ IsLetter(annotationKey[1]) \/ annotationKey[1] = "_"
                   /\ \A i \in 2..Len(annotationKey) :
                         \/ IsLetter(annotationKey[i])
                         \/ IsNumber(annotationKey[i])
                         \/ annotationKey[i] = "_"
    /\ annotationKey = <<>> => ~matched
    /\ (Len(annotationKey) >= 1 /\ annotationKey[1] = "$") => ~matched
    /\ (Len(annotationKey) >= 2 /\ annotationKey[1] = "0"
        /\ annotationKey[2] = "x") => ~matched

\* A key of a letter, a number that is no decimal digit and an underscore
\* was accepted.
C26_Witness ==
    /\ annotationKey = <<"lambda", "half", "_">>
    /\ matched

(***************************************************************************)
(* Properties of the validation of storage transactions.                   *)
(***************************************************************************)
\* The operations of the transaction last submitted, over its five lists.
Submitted ==
    verdict.lengths[1] + verdict.lengths[2] + verdict.lengths[3]
    + verdict.lengths[4] + verdict.lengths[5]

SubmittedNext ==
    verdict'.lengths[1] + verdict'.lengths[2] + verdict'.lengths[3]
    + verdict'.lengths[4] + verdict'.lengths[5]

\* A key of the grammar: a letter or underscore, then letters, numbers and
\* underscores.
InGrammar(key) ==
    /\ Len(key) >= 1
    /\ IsLetter(key[1]) \/ key[1] = "_"
    /\ \A i \in 2..Len(key) :
          IsLetter(key[i]) \/ IsNumber(key[i]) \/ key[i] = "_"

\* C24: a decoded transaction of more than 1000 operations, counted over
\* its five lists, is rejected with the operation-count error, which
\* carries the limit and the count, and the records, the buckets and the
\* used-slot counter are as before; one of at most 1000 operations is
\* never rejected with that error.
C24_OperationCountLimit ==
    [][(/\ last'.op = "submit"
        /\ ops' = ops + 1
        /\ verdict'.form = "encoded")
       => /\ SubmittedNext > MaxOperations
             => /\ verdict'.error = "OperationCountExceeded"
                /\ verdict'.limit = MaxOperations
                /\ verdict'.count = SubmittedNext
                /\ StorageNext = Storage
                /\ usedSlots' = usedSlots
          /\ SubmittedNext <= MaxOperations
             => verdict'.error # "OperationCountExceeded"]_vars

\* A transaction of 1001 operations, no list of which holds more than 500,
\* was rejected for its count while the store held an entity.
C24_Witness ==
    /\ last.op = "submit"
    /\ verdict.error = "OperationCountExceeded"
    /\ Submitted = MaxOperations + 1
    /\ \A i \in 1..5 : verdict.lengths[i] <= 500
    /\ \E k \in Keys : HasRecord(k)

\* C25: a payload that does not decode, and a transaction one of whose
\* annotation keys is outside the grammar, is rejected by the validation
\* and none of its operations is applied: the records, the buckets and the
\* used-slot counter are as before.
C25_ValidationIsAllOrNothing ==
    [][(/\ last'.op = "submit"
        /\ ops' = ops + 1
        /\ \/ verdict'.form # "encoded"
           \/ \E key \in verdict'.keys : ~InGrammar(key))
       => /\ verdict'.error \in {"DecodeError", "InvalidAnnotationKey",
                                 "OperationCountExceeded"}
          /\ StorageNext = Storage
          /\ usedSlots' = usedSlots]_vars

\* A transaction of two Create operations, the second with a key outside
\* the grammar, was rejected: the entity of the first was not stored.
C25_Witness ==
    /\ last.op = "submit"
    /\ verdict.error = "InvalidAnnotationKey"
    /\ verdict.lengths = <<2, 0, 0, 0, 0>>
    /\ ~HasRecord(1)
    /\ HasRecord(2)

(***************************************************************************)
(* Properties of the variables shared by onNewHead and the loop.           *)
(***************************************************************************)
\* C31: block and chainConfig are read and written under the lock only:
\* the slot changes only in a step of the lock's holder, and the loop never
\* reads chainConfig while onNewHead holds the lock to write it.
C31_SharedOnlyUnderLock ==
    [][/\ (block' # block \/ chainConfig' # chainConfig)
           => mu \in {"iterator", "onNewHead"}
       /\ ReadsChainConfig => mu # "onNewHead"
      ]_vars

(***************************************************************************)
(* Properties of the buckets under Store, ExtendBTL, Delete and the sweep. *)
(***************************************************************************)
\* C32: Store adds the key at the front of the bucket of its height: on an
\* empty bucket the key becomes the head with no previous and no next node;
\* otherwise it becomes the head, its next is the old head and the old
\* head's prev is the key; the sweep of the height then yields the key
\* followed by what it yielded before (reverse order of insertion).
C32_AddPrepends ==
    [][last'.op = "store"
         => LET k == last'.key
                h == last'.arg
                oldHead == head[h]
            IN  /\ head'[h] = k
                /\ oldHead = Null => node'[k] = ClearedNode
                /\ oldHead # Null => /\ node'[k].next = oldHead
                                     /\ node'[oldHead].prev = k
                /\ BucketNext(h) = <<k>> \o Bucket(h)
      ]_vars

\* The keys a head, next or prev pointer of the storage st names.
Referenced(st) ==
    ({st.head[h] : h \in Heights}
     \cup {st.node[k].next : k \in Keys}
     \cup {st.node[k].prev : k \in Keys}) \ {Null}

\* Every bucket of st is a doubly-linked list: the head has no prev, a
\* node's next names a node whose prev names it back, no chain runs into a
\* cycle, and every key a pointer names is in a bucket (a holds the keys
\* added to each height and not removed since).
WellFormed(st, a) ==
    /\ \A h \in Heights :
          st.head[h] # Null => st.node[st.head[h]].prev = Null
    /\ \A k \in Keys :
          st.node[k].next # Null => st.node[st.node[k].next].prev = k
    /\ \A h \in Heights : ~IteratorDiverges(st, h)
    /\ \A k \in Referenced(st) : \E h \in Heights : k \in a[h]

\* The step is a Store, a sweep, or an ExtendBTL or Delete of a live key.
OnLiveKeys ==
    \/ last'.op \in {"store", "sweep"}
    \/ /\ last'.op \in {"extend", "delete"}
       /\ last'.key \in live
       /\ HasRecord(last'.key)

\* C33: Store, the sweep, and ExtendBTL and Delete of live keys keep every
\* bucket a well-formed doubly-linked list.
C33_BucketsStayWellFormed ==
    [][(WellFormed(Storage, added) /\ OnLiveKeys)
         => WellFormed(StorageNext, added')
      ]_vars

\* C34: Store(key, ...) and Delete(key) write only the metadata word of the
\* key, the head of the key's bucket, the key's node and the nodes next to
\* it; the metadata of every other key and the sweep of every other height
\* are as they were.
C34_StoreAndDeleteFrame ==
    [][(last'.op \in {"store", "delete"} /\ ~last'.err)
         => LET k == last'.key
                h == IF last'.op = "store" THEN last'.arg ELSE Expiry(k)
                neighbours == IF last'.op = "store" THEN {head[h]}
                              ELSE {node[k].prev, node[k].next}
            IN  /\ \A j \in Keys \ {k} : meta'[j] = meta[j]
                /\ \A j \in Keys \ ({k} \cup neighbours) : node'[j] = node[j]
                /\ \A g \in Heights \ {h} :
                      /\ head'[g] = head[g]
                      /\ BucketNext(g) = Bucket(g)
      ]_vars

(***************************************************************************)
(* Properties of the metadata word.                                        *)
(***************************************************************************)
\* C35: a read of a key right after a Store of it succeeds and returns the
\* owner and the ExpiresAtBlock stored, whatever they are, the zero address
\* with expiry 0 included; the word decodes to the record it encodes.
C35_StoredRecordReadsBack ==
    [][(last.op = "store" /\ last'.op = "get" /\ last'.key = last.key)
         => /\ Unmarshal(Marshal(EntityMetaData(last.owner, last.arg)))
                 = EntityMetaData(last.owner, last.arg)
            /\ ~last'.err
            /\ last'.owner = last.owner
            /\ last'.arg = last.arg
      ]_vars

\* C37: ExtendBTL never moves an expiry backwards: the ExpiresAtBlock it
\* stores for an entity is at least the one the entity had, whatever the
\* number of blocks.
C37_ExtendNeverMovesBack ==
    [][(last'.op = "extend" /\ ~last'.err /\ HasRecord(last'.key))
         => Unmarshal(meta'[last'.key]).ExpiresAtBlock >= Expiry(last'.key)
      ]_vars

(***************************************************************************)
(* Properties of the store over the blocks of the chain.                   *)
(***************************************************************************)
\* C36: with the blocks swept in increasing order, none left out, and every
\* Store and ExtendBTL leaving an ExpiresAtBlock above the block being
\* processed, no entity has a record with ExpiresAtBlock <= h once the
\* sweep of height h has returned.
C36_NoEntityOutlivesItsExpiry ==
    [][(currentBlock' # currentBlock /\ last'.op = "sweep" /\ ~last'.err)
         => \A k \in Keys :
               HasRecordNext(k)
               => Unmarshal(meta'[k]).ExpiresAtBlock > last'.arg
      ]_vars

\* The keys of the Expire operations blockToEvents derives from a block.
ExpiredKeys(txs, receipts) ==
    LET expires == SelectSeq(blockToEvents(txs, receipts).Operations, IsExpire)
    IN  [i \in 1..Len(expires) |-> expires[i].Key]

\* The entities a step deletes, in the order the sweep of height h met them
\* when the step began: the keys that had a record and have none after it.
DeletedBySweep(h) ==
    SelectSeq(Bucket(h), LAMBDA k : HasRecord(k) /\ ~HasRecordNext(k))

\* C40: when a sweep returns its logs and they are the logs of the first
\* receipt of the block, the Expire operations derived for the block name,
\* in number, order and key, the entities the sweep deleted.
C40_ExpiresAreTheEntitiesSwept ==
    [][(currentBlock' # currentBlock /\ last'.op = "sweep" /\ ~last'.err)
         => /\ blockToEvents(transactions', rawReceipts').state = "ok"
            /\ ExpiredKeys(transactions', rawReceipts')
                 = DeletedBySweep(last'.arg)
            /\ \A k \in Keys :
                  (HasRecord(k) /\ ~HasRecordNext(k))
                  => k \in SeqRange(Bucket(last'.arg))
      ]_vars

(***************************************************************************)
(* Properties of the checkpoint and of the notifications.                  *)
(***************************************************************************)
\* C38: lastBlock never decreases, whatever onNewHead calls and steps of
\* the loop interleave; a head taken from the slot that is not above
\* lastBlock yields no batch and leaves lastBlock as it is.
C38_CheckpointNeverDecreases ==
    [][/\ lastBlock' >= lastBlock
       /\ (pc = "reading" /\ newBlockNumber <= lastBlock)
             => /\ lastBlock' = lastBlock
                /\ pc' \in {"reading", "wait"}
                /\ batch' = batch
      ]_vars

\* After a delivery the head moved back below lastBlock; the loop took that
\* head and waits again.
C38_Witness ==
    /\ pc = "wait"
    /\ block = NoBlock
    /\ notified # NoBlock
    /\ notified < lastBlock
    /\ lastBlock > MaxCheckpoint
    /\ batch = <<>>

\* C39: no notification is lost.  The head of every onNewHead call is in
\* the slot when the call returns, whatever the loop is doing; the slot is
\* emptied only by the loop taking its head under the lock; and the loop
\* is suspended only on an empty slot: with a head in the slot its wait
\* step goes on to take that head, with no further call.
C39_NoNotificationLost ==
    [][/\ notified' # notified => block' = notified'
       /\ (block # NoBlock /\ block' # block)
             => \/ block' = notified' /\ block' # NoBlock
                \/ /\ pc = "locked"
                   /\ pc' = "reading"
                   /\ block' = NoBlock
                   /\ newBlockNumber' = block
       /\ (pc = "locked" /\ pc' = "parked") => block = NoBlock
       /\ (pc = "locked" /\ block # NoBlock) => ENABLED Wake
      ]_vars

\* The consumer accepted a batch and is about to wait; a head above the
\* checkpoint was notified while it was reading or handling the batch.
C39_Witness ==
    /\ pc = "wait"
    /\ expected = lastBlock + 1
    /\ lastBlock > MaxCheckpoint
    /\ block # NoBlock
    /\ block = notified
    /\ block > lastBlock

=============================================================================
